---- MODULE Spec2Model ----
(***************************************************************************)
(* Workout log: the tenant-scoped data access functions of                 *)
(* src/src/data/workouts.ts over the tables of src/src/db/schema.ts, and   *)
(* the two mutating server actions (createWorkoutAction in                 *)
(* src/unnamed/part_003, updateWorkoutAction in                            *)
(* src/src/app/dashboard/workout/[workoutId]/actions.ts).                  *)
(*                                                                         *)
(* Every function of the source is an operator from the store it reads     *)
(* (and its arguments) to what it returns and the store it leaves; the     *)
(* actions apply these operators to the state.                             *)
(***************************************************************************)
EXTENDS Integers, Sequences, FiniteSets, TLC

VARIABLES
    workouts,   \* rows of table "workouts"
    exercises,  \* rows of table "exercises"
    sets,       \* rows of table "sets"
    nextId,     \* next value of the identity sequence of workouts.id
    seqs,       \* next values of the identity sequences of exercises.id
                \* and sets.id
    now,        \* the clock read by new Date() and by defaultNow()
    last        \* the last call made and what the caller observed of it

vars == <<workouts, exercises, sets, nextId, seqs, now, last>>

----------------------------------------------------------------------------
(* Bounds of the model *)

MaxWorkouts == 2
MaxClock == 1
MaxTimedWorkouts == 1
MaxListed == 3
MaxExercises == 2
MaxSets == 2
MaxRaceExercises == 1
MaxRaceSets == 1

(* Program constants *)

NameMax == 255
NotesMax == 1000

----------------------------------------------------------------------------
(* Values *)

\* null, undefined and a Date are records, so that they compare with strings
\* (records too) and with rows.
Null == [null |-> TRUE]
Undefined == [undefined |-> TRUE]
DateOf(ms) == [time |-> ms]
InvalidDate == [nan |-> TRUE]

\* the userId of auth() when nobody is signed in
NoUser == "null"

Users == {"user_1", "user_2"}
Identities == Users \cup {NoUser}

\* A string is its text and its length (the schemas read the length only).
Str(t, n) == [text |-> t, len |-> n]

NameA == Str("Leg Day", 7)
NameB == Str("B..B", NameMax)
NameEmpty == Str("", 0)
NameLong == Str("L..L", NameMax + 1)

NotesN == Str("n..n", NotesMax)
NotesLong == Str("x..x", NotesMax + 1)

DateStr1 == Str("2025-03-01", 10)
DateStr2 == Str("2025-03-02", 10)
DateStrBad == Str("tomorrow", 8)
DateStrEmpty == Str("", 0)

MsPerDay == 24 * 60 * 60 * 1000

\* The calendar dates a date string can denote, as days after 2025-02-28.
Calendar == [t \in {"2025-03-01", "2025-03-02"} |->
                IF t = "2025-03-01" THEN 1 ELSE 2]

\* new Date(s + 'T00:00:00'): local midnight of the day s denotes, in
\* milliseconds, or Invalid Date when s is no calendar date.
NewDate(s) ==
    IF s.text \in DOMAIN Calendar
        THEN DateOf(Calendar[s.text] * MsPerDay)
        ELSE InvalidDate

IsString(v) == v \notin {Undefined, Null}

\* d.setHours(h, m, s, ms) on a copy of d: the same local day, at that time
SetHours(d, h, m, s, ms) ==
    DateOf((d.time \div MsPerDay) * MsPerDay
           + ((h * 60 + m) * 60 + s) * 1000 + ms)

----------------------------------------------------------------------------
(* The store: src/src/db/schema.ts *)

\* insert into workouts that takes the smallest id no stored row has
InsertWorkoutReusingIds(ws, nid, values, t, fault) ==
    IF fault \/ values.date = InvalidDate
        THEN [threw |-> TRUE, row |-> Undefined, workouts |-> ws, nextId |-> nid]
        ELSE LET free == CHOOSE i \in 1 .. nid :
                             /\ \A w \in ws : w.id # i
                             /\ \A j \in 1 .. i - 1 : \E w \in ws : w.id = j
                 row == [id |-> free,
                         userId |-> values.userId,
                         name |-> values.name,
                         date |-> values.date,
                         notes |-> IF values.notes = Undefined
                                       THEN Null ELSE values.notes,
                         createdAt |-> t,
                         updatedAt |-> t]
             IN [threw |-> FALSE, row |-> row,
                 workouts |-> ws \cup {row}, nextId |-> nid + 1]

\* insert into workouts ... returning: id from the identity sequence,
\* notes null when not given, createdAt and updatedAt by defaultNow().
\* A timestamp column cannot take an Invalid Date (the driver throws when
\* it serialises it); fault is a failure of the store itself.
InsertWorkout(ws, nid, values, t, fault) ==
    IF fault \/ values.date = InvalidDate
        THEN [threw |-> TRUE, row |-> Undefined, workouts |-> ws, nextId |-> nid]
        ELSE LET row == [id |-> nid,
                         userId |-> values.userId,
                         name |-> values.name,
                         date |-> values.date,
                         notes |-> IF values.notes = Undefined
                                       THEN Null ELSE values.notes,
                         createdAt |-> t,
                         updatedAt |-> t]
             IN [threw |-> FALSE, row |-> row,
                 workouts |-> ws \cup {row}, nextId |-> nid + 1]

\* .set({...}) assigning every key, null where the value is undefined
SetColumnsAll(w, values) ==
    [w EXCEPT !.name = IF values.name = Undefined THEN Null ELSE values.name,
              !.date = IF values.date = Undefined THEN Null ELSE values.date,
              !.notes = IF values.notes = Undefined THEN Null ELSE values.notes,
              !.updatedAt = values.updatedAt]

\* .set({...}) that stamps createdAt as well
SetColumnsStamped(w, values) ==
    [w EXCEPT !.name = IF values.name = Undefined THEN @ ELSE values.name,
              !.date = IF values.date = Undefined THEN @ ELSE values.date,
              !.notes = IF values.notes = Undefined THEN @ ELSE values.notes,
              !.createdAt = values.updatedAt,
              !.updatedAt = values.updatedAt]

\* .set({...}): a key whose value is undefined is not assigned.
SetColumns(w, values) ==
    [w EXCEPT !.name = IF values.name = Undefined THEN @ ELSE values.name,
              !.date = IF values.date = Undefined THEN @ ELSE values.date,
              !.notes = IF values.notes = Undefined THEN @ ELSE values.notes,
              !.updatedAt = values.updatedAt]

\* the foreign key of a child row names a row of the parent table
References(parents, id) == \E p \in parents : p.id = id

\* insert into exercises with no foreign key on workoutId
InsertExerciseNoKey(exs, ws, id, workoutId, order) ==
    exs \cup {[id |-> id, workoutId |-> workoutId,
               name |-> Str("Squat", 5), order |-> order]}

\* insert into exercises / into sets: the id is the value drawn from the
\* identity sequence of the table; the store rejects a row whose foreign key
\* names no row of the parent table.
InsertExercise(exs, ws, id, workoutId, order) ==
    IF References(ws, workoutId)
        THEN exs \cup {[id |-> id, workoutId |-> workoutId,
                        name |-> Str("Squat", 5), order |-> order]}
        ELSE exs

InsertSet(sts, exs, id, exerciseId, setNumber) ==
    IF References(exs, exerciseId)
        THEN sts \cup {[id |-> id, exerciseId |-> exerciseId,
                        setNumber |-> setNumber, reps |-> 5, weight |-> Null]}
        ELSE sts

\* delete from workouts that leaves the rows of the other tables alone
DeleteWorkoutNoCascade(ws, exs, sts, workoutId) ==
    [workouts |-> {w \in ws : w.id # workoutId},
     exercises |-> exs, sets |-> sts]

\* delete from workouts where id = workoutId, as the store carries it out:
\* onDelete "cascade" on exercises.workoutId removes the exercises of the
\* workout, and on sets.exerciseId the sets of these, in the same statement.
DeleteWorkout(ws, exs, sts, workoutId) ==
    LET gone == {e \in exs : e.workoutId = workoutId}
    IN [workouts |-> {w \in ws : w.id # workoutId},
        exercises |-> exs \ gone,
        sets |-> {st \in sts : ~References(gone, st.exerciseId)}]

----------------------------------------------------------------------------
(* The gateway: src/src/data/workouts.ts *)

\* getUserWorkout with the owner filter left out of the where clause
getUserWorkoutNoOwner(ws, workoutId, userId) ==
    LET result == {w \in ws : w.id = workoutId}
    IN IF result = {} THEN Null ELSE CHOOSE w \in result : TRUE

getUserWorkout(ws, workoutId, userId) ==
    LET result == {w \in ws : w.id = workoutId /\ w.userId = userId}
    IN IF result = {} THEN Null ELSE CHOOSE w \in result : TRUE

\* The sequences that list the rows of S once each, by key ascending
\* (.orderBy(key): rows of equal key come in either order).
OrderedBy(S, key) ==
    {s \in [1 .. Cardinality(S) -> S] :
        /\ \A r \in S : \E i \in DOMAIN s : s[i] = r
        /\ \A i, j \in DOMAIN s : i < j => key[s[i]] <= key[s[j]]}

ExerciseOrder(es) == [e \in es |-> e.order]
SetNumber(ss) == [st \in ss |-> st.setNumber]
WorkoutDate(ws) == [w \in ws |-> w.date.time]

\* getUserWorkouts with no orderBy: the rows in any order
getUserWorkoutsUnordered(ws, userId) ==
    LET rows == {w \in ws : w.userId = userId}
    IN OrderedBy(rows, [w \in rows |-> 0])

\* The sequences getUserWorkouts can return.
getUserWorkouts(ws, userId) ==
    LET rows == {w \in ws : w.userId = userId}
    IN OrderedBy(rows, WorkoutDate(rows))

\* getUserWorkoutsByDate with the end of the day at 23:59:59.000
getUserWorkoutsByDateNoMs(ws, userId, date) ==
    LET startOfDay == SetHours(date, 0, 0, 0, 0)
        endOfDay == SetHours(date, 23, 59, 59, 0)
        rows == {w \in ws : /\ w.userId = userId
                            /\ w.date.time >= startOfDay.time
                            /\ w.date.time <= endOfDay.time}
    IN OrderedBy(rows, WorkoutDate(rows))

\* getUserWorkoutsByDate with the owner left out of the where clause
getUserWorkoutsByDateNoOwner(ws, userId, date) ==
    LET startOfDay == SetHours(date, 0, 0, 0, 0)
        endOfDay == SetHours(date, 23, 59, 59, 999)
        rows == {w \in ws : /\ w.date.time >= startOfDay.time
                            /\ w.date.time <= endOfDay.time}
    IN OrderedBy(rows, WorkoutDate(rows))

\* The sequences getUserWorkoutsByDate can return.
getUserWorkoutsByDate(ws, userId, date) ==
    LET startOfDay == SetHours(date, 0, 0, 0, 0)
        endOfDay == SetHours(date, 23, 59, 59, 999)
        rows == {w \in ws : /\ w.userId = userId
                            /\ w.date.time >= startOfDay.time
                            /\ w.date.time <= endOfDay.time}
    IN OrderedBy(rows, WorkoutDate(rows))

\* The values getUserWorkoutWithExercises can return: null, or the workout
\* with its exercises, each with its sets.
getUserWorkoutWithExercises(ws, exs, sts, workoutId, userId) ==
    LET workout == {w \in ws : w.id = workoutId /\ w.userId = userId}
        w0 == CHOOSE w \in workout : TRUE
        setsOf(e) == LET ss == {st \in sts : st.exerciseId = e.id}
                     IN OrderedBy(ss, SetNumber(ss))
        found == {e \in exs : e.workoutId = workoutId}
        withSets(es) ==
            {x \in [DOMAIN es -> UNION {{[exercise |-> es[i], sets |-> ss] :
                                           ss \in setsOf(es[i])} : i \in DOMAIN es}] :
                \A i \in DOMAIN es : x[i].exercise = es[i]}
    IN IF workout = {}
           THEN {Null}
           ELSE {[workout |-> w0, exercises |-> x] :
                   x \in UNION {withSets(es) :
                       es \in OrderedBy(found, ExerciseOrder(found))}}

\* getUserWorkoutWithExercises await by await.  A call is a record: where it
\* stands (pc), the queries it has issued, the workout and the exercises it
\* has fetched, the callbacks of the map that have settled, in the order
\* they settled, and what each settled with.
Rejected == [rejected |-> TRUE]

\* Promise.all over n promises, of which those in DOMAIN results have
\* settled: rejected as soon as one is, fulfilled with the values in the
\* order of the array once all are.
PromiseAll(results, n) ==
    IF \E i \in DOMAIN results : results[i] = Rejected
        THEN [state |-> "rejected"]
    ELSE IF DOMAIN results = 1 .. n
        THEN [state |-> "fulfilled", values |-> [i \in 1 .. n |-> results[i]]]
    ELSE [state |-> "pending"]

\* the exercises query issued together with the workout query
IssuedAtStartEager(found) == <<"workouts", "exercises">>

\* The queries issued by the time the workout query has answered.
IssuedAtStart(found) ==
    IF found THEN <<"workouts", "exercises">> ELSE <<"workouts">>

\* the values of the callbacks in the order they settled
ValuesAsSettled(call, values) ==
    [k \in DOMAIN values |-> values[call.settled[k]]]

\* The value of the array the await of Promise.all gives.
ValuesOf(call, values) == values

AggregateCall(workoutId, userId) ==
    [op |-> "getUserWorkoutWithExercises", workoutId |-> workoutId,
     userId |-> userId, pc |-> "workout", queries |-> <<>>,
     workout |-> Null, exercises |-> <<>>, settled |-> <<>>,
     results |-> <<>>, threw |-> FALSE, value |-> Undefined]

\* The call has ended: of its locals, the model keeps the order the
\* callbacks settled in when it returns, and nothing when it throws.
Throw(call) ==
    [call EXCEPT !.pc = "done", !.threw = TRUE, !.workout = Null,
                 !.exercises = <<>>, !.settled = <<>>, !.results = <<>>]
Return(call, v) ==
    [call EXCEPT !.pc = "done", !.value = v, !.workout = Null,
                 !.exercises = <<>>, !.results = <<>>]

\* the workout query with the owner left out of the where clause
WorkoutQueryNoOwner(ws, workoutId, userId) == {w \in ws : w.id = workoutId}

\* lines 48-57: the rows the workout query answers with
WorkoutQuery(ws, workoutId, userId) ==
    {w \in ws : w.id = workoutId /\ w.userId = userId}

\* the callback of the map catching the failure of its query
CallbackCatches(exercise, ss, fault) ==
    [exercise |-> exercise, sets |-> IF fault THEN <<>> ELSE ss]

\* lines 72-83: what the callback of the map settles with, when its sets
\* query has answered with ss or has failed
Callback(exercise, ss, fault) ==
    IF fault THEN Rejected ELSE [exercise |-> exercise, sets |-> ss]

\* lines 48-61: the workout query has answered
AwaitWorkout(call, ws, fault) ==
    LET workout == WorkoutQuery(ws, call.workoutId, call.userId)
        issued == [call EXCEPT !.queries = IssuedAtStart(workout # {})]
    IN IF fault THEN Throw([call EXCEPT !.queries = <<"workouts">>])
       ELSE IF workout = {} THEN Return(issued, Null)
       ELSE [issued EXCEPT !.pc = "exercises",
                           !.workout = CHOOSE w \in workout : TRUE]

\* lines 71-84, after a callback settled or the map was made: the function
\* stays at the await, throws, or returns the aggregate (lines 86-89).
AwaitAll(call) ==
    LET all == PromiseAll(call.results, Len(call.exercises))
    IN IF all.state = "rejected" THEN Throw(call)
       ELSE IF all.state = "fulfilled"
           THEN Return(call, [workout |-> call.workout,
                              exercises |-> ValuesOf(call, all.values)])
       ELSE call

\* lines 64-72: the exercises query has answered with es; the map issues one
\* sets query for each exercise.
AwaitExercises(call, es, fault) ==
    IF fault THEN Throw(call)
    ELSE AwaitAll([call EXCEPT !.pc = "sets", !.exercises = es,
                               !.queries = @ \o [i \in DOMAIN es |-> "sets"]])

\* lines 73-82: the sets query of the callback of exercise i has answered
\* with ss, or failed.
AwaitSets(call, i, ss, fault) ==
    AwaitAll([call EXCEPT
        !.settled = Append(@, i),
        !.results = (i :> Callback(call.exercises[i], ss, fault)) @@ @])

\* createWorkout that does not pass the notes on
createWorkoutNoNotes(ws, nid, data, t, fault) ==
    InsertWorkout(ws, nid,
                  [name |-> data.name, date |-> data.date,
                   notes |-> Undefined, userId |-> data.userId],
                  t, fault)

createWorkout(ws, nid, data, t, fault) ==
    InsertWorkout(ws, nid,
                  [name |-> data.name, date |-> data.date,
                   notes |-> data.notes, userId |-> data.userId],
                  t, fault)

\* updateWorkout with the owner filter left out of the where clause
updateWorkoutNoOwner(ws, workoutId, userId, data, t, fault) ==
    LET matched == {w \in ws : w.id = workoutId}
        values == [name |-> data.name, date |-> data.date,
                   notes |-> data.notes, updatedAt |-> t]
        updated == {SetColumns(w, values) : w \in matched}
    IN IF fault \/ data.date = InvalidDate
           THEN [threw |-> TRUE, row |-> Undefined, workouts |-> ws]
           ELSE [threw |-> FALSE,
                 row |-> IF updated = {} THEN Undefined
                                         ELSE CHOOSE w \in updated : TRUE,
                 workouts |-> (ws \ matched) \cup updated]

\* updateWorkout that inserts the row when no row matches
updateWorkoutUpsert(ws, workoutId, userId, data, t, fault) ==
    LET matched == {w \in ws : w.id = workoutId /\ w.userId = userId}
        values == [name |-> data.name, date |-> data.date,
                   notes |-> data.notes, updatedAt |-> t]
        blank == [id |-> workoutId, userId |-> userId, name |-> Null,
                  date |-> Null, notes |-> Null, createdAt |-> t,
                  updatedAt |-> t]
        updated == {SetColumns(w, values) :
                        w \in IF matched = {} THEN {blank} ELSE matched}
    IN IF fault \/ data.date = InvalidDate
           THEN [threw |-> TRUE, row |-> Undefined, workouts |-> ws]
           ELSE [threw |-> FALSE,
                 row |-> CHOOSE w \in updated : TRUE,
                 workouts |-> (ws \ matched) \cup updated]

updateWorkout(ws, workoutId, userId, data, t, fault) ==
    LET matched == {w \in ws : w.id = workoutId /\ w.userId = userId}
        values == [name |-> data.name, date |-> data.date,
                   notes |-> data.notes, updatedAt |-> t]
        updated == {SetColumns(w, values) : w \in matched}
    IN IF fault \/ data.date = InvalidDate
           THEN [threw |-> TRUE, row |-> Undefined, workouts |-> ws]
           ELSE [threw |-> FALSE,
                 row |-> IF updated = {} THEN Undefined
                                         ELSE CHOOSE w \in updated : TRUE,
                 workouts |-> (ws \ matched) \cup updated]

----------------------------------------------------------------------------
(* The entry points: src/unnamed/part_003 (create) and                     *)
(* src/src/app/dashboard/workout/[workoutId]/actions.ts (update)           *)

\* The keys of a payload that the schema does not declare.
NoExtra == <<>>

\* z.string().min(lo).max(hi): the issue raised for field f, if any.
StringIssues(f, v, lo, hi) ==
    IF ~IsString(v) \/ v.len < lo \/ v.len > hi THEN {f} ELSE {}

\* z.string().min(1), with no upper limit
StringMinIssues(f, v, lo) ==
    IF ~IsString(v) \/ v.len < lo THEN {f} ELSE {}

\* z.string().max(hi).optional()
OptionalStringIssues(f, v, hi) ==
    IF v = Undefined THEN {} ELSE StringIssues(f, v, 0, hi)

\* z.number().int().positive()
PositiveIntIssues(f, v) == IF v \in Int /\ v > 0 THEN {} ELSE {f}

\* createWorkoutSchema.parse(input): the issues found, and the parsed
\* object when there are none (z.object drops the keys it does not declare).
createWorkoutSchema(input) ==
    [issues |-> StringIssues("name", input.name, 1, NameMax)
                \cup StringMinIssues("date", input.date, 1)
                \cup OptionalStringIssues("notes", input.notes, NotesMax),
     data |-> [name |-> input.name, date |-> input.date, notes |-> input.notes]]

updateWorkoutSchema(input) ==
    [issues |-> PositiveIntIssues("id", input.id)
                \cup StringIssues("name", input.name, 1, NameMax)
                \cup StringMinIssues("date", input.date, 1)
                \cup OptionalStringIssues("notes", input.notes, NotesMax),
     data |-> [id |-> input.id, name |-> input.name, date |-> input.date,
               notes |-> input.notes]]

ZodError(issues) == [name |-> "ZodError", issues |-> issues]
Success(row) == [success |-> TRUE, data |-> row]
Failure(msg) == [success |-> FALSE, error |-> msg]

DashboardPath == [path |-> "/dashboard"]
WorkoutPath(id) == [path |-> "/dashboard/workout/", id |-> id]

\* What a call of an entry point does: whether it threw, the value it
\* returned or threw, the store it leaves, the paths it revalidated and the
\* gateway calls it made.
Outcome(threw, value, ws, nid, paths, calls) ==
    [threw |-> threw, value |-> value, workouts |-> ws, nextId |-> nid,
     revalidated |-> paths, calls |-> calls]

\* createWorkoutAction taking the owner from the payload when it names one
createWorkoutActionSpoofable(ws, nid, input, authId, t, fault) ==
    LET parsed == createWorkoutSchema(input)
        userId == IF "userId" \in DOMAIN input.extra
                      THEN input.extra.userId ELSE authId
        data == [name |-> parsed.data.name, date |-> NewDate(parsed.data.date),
                 notes |-> parsed.data.notes, userId |-> userId]
        call == [fn |-> "createWorkout", userId |-> userId]
        r == createWorkout(ws, nid, data, t, fault)
    IN IF parsed.issues # {}
           THEN Outcome(TRUE, ZodError(parsed.issues), ws, nid, {}, <<>>)
       ELSE IF authId = NoUser
           THEN Outcome(FALSE, Failure("Unauthorized"), ws, nid, {}, <<>>)
       ELSE IF r.threw
           THEN Outcome(FALSE, Failure("Failed to create workout"),
                        r.workouts, r.nextId, {}, <<call>>)
       ELSE Outcome(FALSE, Success(r.row), r.workouts, r.nextId,
                    {DashboardPath}, <<call>>)

\* createWorkoutAction checking the identity only after the insert
createWorkoutActionLateAuth(ws, nid, input, authId, t, fault) ==
    LET parsed == createWorkoutSchema(input)
        data == [name |-> parsed.data.name, date |-> NewDate(parsed.data.date),
                 notes |-> parsed.data.notes, userId |-> authId]
        call == [fn |-> "createWorkout", userId |-> authId]
        r == createWorkout(ws, nid, data, t, fault)
    IN IF parsed.issues # {}
           THEN Outcome(TRUE, ZodError(parsed.issues), ws, nid, {}, <<>>)
       ELSE IF r.threw
           THEN Outcome(FALSE, Failure("Failed to create workout"),
                        r.workouts, r.nextId, {}, <<call>>)
       ELSE IF authId = NoUser
           THEN Outcome(FALSE, Failure("Unauthorized"),
                        r.workouts, r.nextId, {}, <<call>>)
       ELSE Outcome(FALSE, Success(r.row), r.workouts, r.nextId,
                    {DashboardPath}, <<call>>)

\* createWorkoutAction with revalidatePath in a finally block
createWorkoutActionFinally(ws, nid, input, authId, t, fault) ==
    LET parsed == createWorkoutSchema(input)
        data == [name |-> parsed.data.name, date |-> NewDate(parsed.data.date),
                 notes |-> parsed.data.notes, userId |-> authId]
        call == [fn |-> "createWorkout", userId |-> authId]
        r == createWorkout(ws, nid, data, t, fault)
    IN IF parsed.issues # {}
           THEN Outcome(TRUE, ZodError(parsed.issues), ws, nid, {}, <<>>)
       ELSE IF authId = NoUser
           THEN Outcome(FALSE, Failure("Unauthorized"), ws, nid, {}, <<>>)
       ELSE IF r.threw
           THEN Outcome(FALSE, Failure("Failed to create workout"),
                        r.workouts, r.nextId, {DashboardPath}, <<call>>)
       ELSE Outcome(FALSE, Success(r.row), r.workouts, r.nextId,
                    {DashboardPath}, <<call>>)

createWorkoutAction(ws, nid, input, authId, t, fault) ==
    LET parsed == createWorkoutSchema(input)
        validatedData == parsed.data
        userId == authId
        workoutDate == NewDate(validatedData.date)
        data == [name |-> validatedData.name, date |-> workoutDate,
                 notes |-> validatedData.notes, userId |-> userId]
        call == [fn |-> "createWorkout", userId |-> userId]
        r == createWorkout(ws, nid, data, t, fault)
    IN IF parsed.issues # {}
           THEN Outcome(TRUE, ZodError(parsed.issues), ws, nid, {}, <<>>)
       ELSE IF userId = NoUser
           THEN Outcome(FALSE, Failure("Unauthorized"), ws, nid, {}, <<>>)
       ELSE IF r.threw
           THEN Outcome(FALSE, Failure("Failed to create workout"),
                        r.workouts, r.nextId, {}, <<call>>)
       ELSE Outcome(FALSE, Success(r.row), r.workouts, r.nextId,
                    {DashboardPath}, <<call>>)

\* updateWorkoutAction telling the caller that the row is someone else's
updateWorkoutActionForbidden(ws, nid, input, authId, t, fault) ==
    LET parsed == updateWorkoutSchema(input)
        data == [name |-> parsed.data.name, date |-> NewDate(parsed.data.date),
                 notes |-> parsed.data.notes]
        call == [fn |-> "updateWorkout", workoutId |-> parsed.data.id,
                 userId |-> authId]
        r == updateWorkout(ws, parsed.data.id, authId, data, t, fault)
    IN IF parsed.issues # {}
           THEN Outcome(TRUE, ZodError(parsed.issues), ws, nid, {}, <<>>)
       ELSE IF authId = NoUser
           THEN Outcome(FALSE, Failure("Unauthorized"), ws, nid, {}, <<>>)
       ELSE IF r.threw
           THEN Outcome(FALSE, Failure("Failed to update workout"),
                        r.workouts, nid, {}, <<call>>)
       ELSE IF r.row = Undefined /\ \E w \in ws : w.id = parsed.data.id
           THEN Outcome(FALSE, Failure("Forbidden"),
                        r.workouts, nid, {}, <<call>>)
       ELSE IF r.row = Undefined
           THEN Outcome(FALSE, Failure("Workout not found"),
                        r.workouts, nid, {}, <<call>>)
       ELSE Outcome(FALSE, Success(r.row), r.workouts, nid,
                    {DashboardPath, WorkoutPath(parsed.data.id)}, <<call>>)

\* updateWorkoutAction without the check of the identity
updateWorkoutActionNoAuth(ws, nid, input, authId, t, fault) ==
    LET parsed == updateWorkoutSchema(input)
        data == [name |-> parsed.data.name, date |-> NewDate(parsed.data.date),
                 notes |-> parsed.data.notes]
        call == [fn |-> "updateWorkout", workoutId |-> parsed.data.id,
                 userId |-> authId]
        r == updateWorkout(ws, parsed.data.id, authId, data, t, fault)
    IN IF parsed.issues # {}
           THEN Outcome(TRUE, ZodError(parsed.issues), ws, nid, {}, <<>>)
       ELSE IF r.threw
           THEN Outcome(FALSE, Failure("Failed to update workout"),
                        r.workouts, nid, {}, <<call>>)
       ELSE IF r.row = Undefined
           THEN Outcome(FALSE, Failure("Workout not found"),
                        r.workouts, nid, {}, <<call>>)
       ELSE Outcome(FALSE, Success(r.row), r.workouts, nid,
                    {DashboardPath, WorkoutPath(parsed.data.id)}, <<call>>)

\* updateWorkoutAction with one message for every failure of the update
updateWorkoutActionOneError(ws, nid, input, authId, t, fault) ==
    LET parsed == updateWorkoutSchema(input)
        validatedData == parsed.data
        userId == authId
        workoutDate == NewDate(validatedData.date)
        data == [name |-> validatedData.name, date |-> workoutDate,
                 notes |-> validatedData.notes]
        call == [fn |-> "updateWorkout", workoutId |-> validatedData.id,
                 userId |-> userId]
        r == updateWorkout(ws, validatedData.id, userId, data, t, fault)
    IN IF parsed.issues # {}
           THEN Outcome(TRUE, ZodError(parsed.issues), ws, nid, {}, <<>>)
       ELSE IF userId = NoUser
           THEN Outcome(FALSE, Failure("Unauthorized"), ws, nid, {}, <<>>)
       ELSE IF r.threw \/ r.row = Undefined
           THEN Outcome(FALSE, Failure("Workout not found"),
                        r.workouts, nid, {}, <<call>>)
       ELSE Outcome(FALSE, Success(r.row), r.workouts, nid,
                    {DashboardPath, WorkoutPath(validatedData.id)}, <<call>>)

updateWorkoutAction(ws, nid, input, authId, t, fault) ==
    LET parsed == updateWorkoutSchema(input)
        validatedData == parsed.data
        userId == authId
        workoutDate == NewDate(validatedData.date)
        data == [name |-> validatedData.name, date |-> workoutDate,
                 notes |-> validatedData.notes]
        call == [fn |-> "updateWorkout", workoutId |-> validatedData.id,
                 userId |-> userId]
        r == updateWorkout(ws, validatedData.id, userId, data, t, fault)
    IN IF parsed.issues # {}
           THEN Outcome(TRUE, ZodError(parsed.issues), ws, nid, {}, <<>>)
       ELSE IF userId = NoUser
           THEN Outcome(FALSE, Failure("Unauthorized"), ws, nid, {}, <<>>)
       ELSE IF r.threw
           THEN Outcome(FALSE, Failure("Failed to update workout"),
                        r.workouts, nid, {}, <<call>>)
       ELSE IF r.row = Undefined
           THEN Outcome(FALSE, Failure("Workout not found"),
                        r.workouts, nid, {}, <<call>>)
       ELSE Outcome(FALSE, Success(r.row), r.workouts, nid,
                    {DashboardPath, WorkoutPath(validatedData.id)}, <<call>>)

----------------------------------------------------------------------------
(* Inputs *)

CreateInput(n, d, no, x) == [name |-> n, date |-> d, notes |-> no, extra |-> x]
UpdateInput(i, n, d, no, x) ==
    [id |-> i, name |-> n, date |-> d, notes |-> no, extra |-> x]

SpoofedOwner == [userId |-> "user_2"]

\* Two payloads that pass the schema, and the first with one field changed.
CreateInputs ==
    {CreateInput(NameA, DateStr1, Undefined, NoExtra),
     CreateInput(NameB, DateStr2, NotesN, NoExtra),
     CreateInput(NameA, DateStr1, Undefined, SpoofedOwner),
     CreateInput(NameEmpty, DateStr1, Undefined, NoExtra),
     CreateInput(NameLong, DateStr1, Undefined, NoExtra),
     CreateInput(Undefined, DateStr1, Undefined, NoExtra),
     CreateInput(NameA, DateStrEmpty, Undefined, NoExtra),
     CreateInput(NameA, DateStrBad, Undefined, NoExtra),
     CreateInput(NameA, DateStr1, NotesLong, NoExtra)}

WorkoutIds == 1 .. MaxWorkouts
\* the ids a caller may name: those of the rows there can be, and one more
CallIds == 1 .. MaxWorkouts + 1

UpdateInputs ==
    {UpdateInput(i, NameA, DateStr1, Undefined, NoExtra) : i \in CallIds}
    \cup {UpdateInput(i, NameB, DateStr2, NotesN, NoExtra) : i \in CallIds}
    \cup {UpdateInput(0, NameA, DateStr1, Undefined, NoExtra),
          UpdateInput(1, NameA, DateStr1, Undefined, SpoofedOwner),
          UpdateInput(1, Undefined, DateStr1, NotesN, NoExtra),
          UpdateInput(1, NameA, Undefined, NotesN, NoExtra),
          UpdateInput(1, Undefined, Undefined, NotesN, NoExtra),
          UpdateInput(1, NameEmpty, DateStr1, Undefined, NoExtra),
          UpdateInput(1, NameA, DateStrBad, Undefined, NoExtra),
          UpdateInput(1, NameA, DateStr1, NotesLong, NoExtra)}

----------------------------------------------------------------------------
(* The pages: src/unnamed/part_005 (DashboardPage), src/unnamed/part_001   *)
(* (EditWorkoutPage), src/unnamed/part_002 (NewWorkoutPage)                *)

\* A route parameter is the sequence of its characters.
Digit == [c \in {"0", "1", "2", "3"} |->
             CASE c = "0" -> 0 [] c = "1" -> 1 [] c = "2" -> 2 [] c = "3" -> 3]

\* parseInt and isNaN work on numbers; a number is a record, so that NaN
\* compares with it.
NaN == [nan |-> TRUE]
Num(n) == [num |-> n]

\* the value of the longest prefix of s made of digits, after acc
RECURSIVE DigitsPrefix(_, _)
DigitsPrefix(s, acc) ==
    IF s = <<>> \/ Head(s) \notin DOMAIN Digit
        THEN acc
        ELSE DigitsPrefix(Tail(s), 10 * acc + Digit[Head(s)])

\* parseInt(s, 10): an optional sign, then the digits up to the first
\* character that is none; NaN when there is no digit there.
ParseInt(s) ==
    LET neg == s # <<>> /\ Head(s) = "-"
        body == IF s # <<>> /\ Head(s) \in {"-", "+"} THEN Tail(s) ELSE s
    IN IF body = <<>> \/ Head(body) \notin DOMAIN Digit
           THEN NaN
           ELSE Num(IF neg THEN 0 - DigitsPrefix(body, 0)
                           ELSE DigitsPrefix(body, 0))

\* How the rendering of a page ends: redirect() throws and ends it, an
\* error thrown by the gateway ends it, or it returns its element.
Redirected(path, calls) ==
    [kind |-> "redirect", to |-> path, props |-> Undefined, calls |-> calls]
Failed(calls) ==
    [kind |-> "error", to |-> Undefined, props |-> Undefined, calls |-> calls]
Rendered(props, calls) ==
    [kind |-> "render", to |-> Undefined, props |-> props, calls |-> calls]

\* DashboardPage reading the workouts before it looks at the identity
DashboardPageLateAuth(ws, authId, dateParam, t, fault) ==
    LET selectedDate == IF dateParam = Undefined \/ dateParam.len = 0
                            THEN DateOf(t) ELSE NewDate(dateParam)
        call == [fn |-> "getUserWorkoutsByDate", userId |-> authId,
                 date |-> selectedDate]
    IN IF fault \/ selectedDate = InvalidDate
           THEN {Failed(<<call>>)}
       ELSE IF authId = NoUser
           THEN {Redirected("/sign-in", <<call>>)}
       ELSE {Rendered([workouts |-> w, selectedDate |-> selectedDate],
                      <<call>>) :
                w \in getUserWorkoutsByDate(ws, authId, selectedDate)}

\* The ways DashboardPage can end.  An absent or empty date parameter is
\* falsy and gives today.  getUserWorkoutsByDate copies the date and sets
\* its hours, which leaves an Invalid Date invalid, and the driver throws
\* when it serialises it.
DashboardPage(ws, authId, dateParam, t, fault) ==
    LET userId == authId
        selectedDate == IF dateParam = Undefined \/ dateParam.len = 0
                            THEN DateOf(t) ELSE NewDate(dateParam)
        call == [fn |-> "getUserWorkoutsByDate", userId |-> userId,
                 date |-> selectedDate]
    IN IF userId = NoUser
           THEN {Redirected("/sign-in", <<>>)}
       ELSE IF fault \/ selectedDate = InvalidDate
           THEN {Failed(<<call>>)}
       ELSE {Rendered([workouts |-> w, selectedDate |-> selectedDate],
                      <<call>>) :
                w \in getUserWorkoutsByDate(ws, userId, selectedDate)}

\* EditWorkoutPage reading the workout before it looks at the identity
EditWorkoutPageLateAuth(ws, authId, workoutId, fault) ==
    LET workoutIdNum == ParseInt(workoutId)
        call == [fn |-> "getUserWorkout", workoutId |-> workoutIdNum,
                 userId |-> authId]
        workout == getUserWorkout(ws, workoutIdNum.num, authId)
    IN IF workoutIdNum = NaN
           THEN {Redirected("/dashboard", <<>>)}
       ELSE IF fault
           THEN {Failed(<<call>>)}
       ELSE IF authId = NoUser
           THEN {Redirected("/sign-in", <<call>>)}
       ELSE IF workout = Null
           THEN {Redirected("/dashboard", <<call>>)}
       ELSE {Rendered([workout |-> workout], <<call>>)}

\* The ways EditWorkoutPage can end.
EditWorkoutPage(ws, authId, workoutId, fault) ==
    LET userId == authId
        workoutIdNum == ParseInt(workoutId)
        call == [fn |-> "getUserWorkout", workoutId |-> workoutIdNum,
                 userId |-> userId]
        workout == getUserWorkout(ws, workoutIdNum.num, userId)
    IN IF userId = NoUser
           THEN {Redirected("/sign-in", <<>>)}
       ELSE IF workoutIdNum = NaN
           THEN {Redirected("/dashboard", <<>>)}
       ELSE IF fault
           THEN {Failed(<<call>>)}
       ELSE IF workout = Null
           THEN {Redirected("/dashboard", <<call>>)}
       ELSE {Rendered([workout |-> workout], <<call>>)}

\* The ways NewWorkoutPage can end.
NewWorkoutPage(authId) ==
    IF authId = NoUser
        THEN {Redirected("/sign-in", <<>>)}
        ELSE {Rendered([form |-> "WorkoutForm"], <<>>)}

\* the date parameters and the workoutId segments of the requests
DateParams == {Undefined, DateStrEmpty, DateStr1, DateStr2, DateStrBad}
IdParams == {<<"1">>, <<"2">>, <<"3">>, <<"1", "0">>, <<"0", "2">>,
             <<"-", "1">>, <<"1", "x">>, <<"2", ".", "5">>, <<"x">>,
             <<"x", "1">>, <<>>}

----------------------------------------------------------------------------
(* The state machine of the entry points *)

NoCall == [op |-> "none"]

Init ==
    /\ workouts = {}
    /\ exercises = {}
    /\ sets = {}
    /\ nextId = 1
    /\ seqs = [exercises |-> 1, sets |-> 1]
    /\ now = 0
    /\ last = NoCall

\* revalidatePath called before the gateway is
EffectsEager(calls, paths) ==
    [k \in 1 .. Cardinality(paths) |-> [fn |-> "revalidatePath"]] \o calls

\* The calls an entry point makes of its collaborators, in the order of its
\* statements: the gateway call is awaited, then each path is revalidated.
Effects(calls, paths) ==
    calls \o [k \in 1 .. Cardinality(paths) |-> [fn |-> "revalidatePath"]]

\* What the caller and the collaborators observed of a call.
Observed(op, input, authId, o) ==
    [op |-> op, input |-> input, auth |-> authId, threw |-> o.threw,
     value |-> o.value, revalidated |-> o.revalidated, calls |-> o.calls,
     effects |-> Effects(o.calls, o.revalidated)]

CreateWorkoutAction(input, authId, fault) ==
    LET o == createWorkoutAction(workouts, nextId, input, authId, now, fault)
    IN /\ nextId <= MaxWorkouts
       /\ workouts' = o.workouts
       /\ nextId' = o.nextId
       /\ last' = Observed("createWorkoutAction", input, authId, o)
       /\ UNCHANGED <<seqs, exercises, sets, now>>

UpdateWorkoutAction(input, authId, fault) ==
    LET o == updateWorkoutAction(workouts, nextId, input, authId, now, fault)
    IN /\ workouts' = o.workouts
       /\ nextId' = o.nextId
       /\ last' = Observed("updateWorkoutAction", input, authId, o)
       /\ UNCHANGED <<seqs, exercises, sets, now>>

\* A read of the gateway by a signed-in caller (the edit page reads
\* getUserWorkout with the caller's identity).
GetUserWorkout(workoutId, userId) ==
    /\ last' = [op |-> "getUserWorkout", workoutId |-> workoutId,
                userId |-> userId,
                value |-> getUserWorkout(workouts, workoutId, userId)]
    /\ UNCHANGED <<seqs, workouts, exercises, sets, nextId, now>>

GetUserWorkoutWithExercises(workoutId, userId) ==
    /\ \E v \in getUserWorkoutWithExercises(workouts, exercises, sets,
                                            workoutId, userId) :
          last' = [op |-> "getUserWorkoutWithExercises",
                   workoutId |-> workoutId, userId |-> userId, value |-> v]
    /\ UNCHANGED <<seqs, workouts, exercises, sets, nextId, now>>

Tick ==
    /\ now < MaxClock
    /\ now' = now + 1
    /\ UNCHANGED <<seqs, workouts, exercises, sets, nextId, last>>

\* The store can fail only in a call that reaches it.
StoreFaults(calls) == IF calls = <<>> THEN {FALSE} ELSE BOOLEAN

Create == \E input \in CreateInputs, authId \in Identities :
              \E fault \in StoreFaults(createWorkoutAction(workouts, nextId,
                                input, authId, now, FALSE).calls) :
                  CreateWorkoutAction(input, authId, fault)

Update == \E input \in UpdateInputs, authId \in Identities :
              \E fault \in StoreFaults(updateWorkoutAction(workouts, nextId,
                                input, authId, now, FALSE).calls) :
                  UpdateWorkoutAction(input, authId, fault)

Read == \E workoutId \in CallIds, userId \in Users :
            \/ GetUserWorkout(workoutId, userId)
            \/ GetUserWorkoutWithExercises(workoutId, userId)

\* Direct calls of the gateway, as its callers other than the two entry
\* points may make them, while the store answers.
CreateWorkout(data) ==
    LET r == createWorkout(workouts, nextId, data, now, FALSE)
    IN /\ nextId <= MaxTimedWorkouts
       /\ workouts' = r.workouts
       /\ nextId' = r.nextId
       /\ last' = [op |-> "createWorkout", data |-> data, value |-> r.row]
       /\ UNCHANGED <<seqs, exercises, sets, now>>

UpdateWorkout(workoutId, userId, data) ==
    LET r == updateWorkout(workouts, workoutId, userId, data, now, FALSE)
    IN /\ workouts' = r.workouts
       /\ last' = [op |-> "updateWorkout", workoutId |-> workoutId,
                   userId |-> userId, data |-> data, at |-> now,
                   before |-> getUserWorkout(workouts, workoutId, userId),
                   value |-> r.row]
       /\ UNCHANGED <<seqs, exercises, sets, nextId, now>>

\* The data the direct calls are made with.
CreateData ==
    [name : {NameA}, date : {NewDate(DateStr1)}, notes : {Undefined},
     userId : Users]

PartialData ==
    {[name |-> NameB, date |-> Undefined, notes |-> Undefined],
     [name |-> Undefined, date |-> NewDate(DateStr2), notes |-> Undefined],
     [name |-> Undefined, date |-> Undefined, notes |-> NotesN],
     [name |-> Undefined, date |-> Undefined, notes |-> Undefined]}

TimedCallIds == 1 .. MaxTimedWorkouts

GatewayCreate == \E data \in CreateData : CreateWorkout(data)

GatewayUpdate == \E workoutId \in TimedCallIds, userId \in Users,
                    data \in PartialData :
                        UpdateWorkout(workoutId, userId, data)

\* The gateway over time: rows are written at different readings of the
\* clock.
NextClock == GatewayCreate \/ GatewayUpdate \/ Tick

SpecClock == Init /\ [][NextClock]_vars

\* The update entry point over rows the gateway has inserted, with a store
\* that answers or fails.
NextFaults == GatewayCreate \/ Update

SpecFaults == Init /\ [][NextFaults]_vars

\* A request for a page: what the visitor and the gateway observed of it.
Requested(op, authId, param, o) ==
    [op |-> op, auth |-> authId, param |-> param, kind |-> o.kind,
     to |-> o.to, props |-> o.props, calls |-> o.calls]

RequestDashboard ==
    \E authId \in Identities, dateParam \in DateParams, fault \in BOOLEAN :
        \E o \in DashboardPage(workouts, authId, dateParam, now, fault) :
            /\ last' = Requested("DashboardPage", authId, dateParam, o)
            /\ UNCHANGED <<seqs, workouts, exercises, sets, nextId, now>>

RequestEditWorkout ==
    \E authId \in Identities, workoutId \in IdParams, fault \in BOOLEAN :
        \E o \in EditWorkoutPage(workouts, authId, workoutId, fault) :
            /\ last' = Requested("EditWorkoutPage", authId, workoutId, o)
            /\ UNCHANGED <<seqs, workouts, exercises, sets, nextId, now>>

RequestNewWorkout ==
    \E authId \in Identities :
        \E o \in NewWorkoutPage(authId) :
            /\ last' = Requested("NewWorkoutPage", authId, Undefined, o)
            /\ UNCHANGED <<seqs, workouts, exercises, sets, nextId, now>>

\* The pages over workouts made through the create entry point.
NextPages == Create \/ RequestDashboard \/ RequestEditWorkout
                \/ RequestNewWorkout

SpecPages == Init /\ [][NextPages]_vars

\* The listings of the gateway, over workouts of several dates.
Midnight(day) == DateOf(day * MsPerDay)
LastSecond(day) == SetHours(Midnight(day), 23, 59, 59, 0)
LastMs(day) == SetHours(Midnight(day), 23, 59, 59, 999)
Noon(day) == SetHours(Midnight(day), 12, 0, 0, 0)

\* the dates of the workouts listed, and the dates asked for
ListedDates == {Midnight(1), LastSecond(1), LastMs(1), Midnight(2)}
AskedDates == {Midnight(1), Noon(1), LastMs(1), Midnight(2), Noon(2)}

ListedData ==
    [name : {NameA}, date : ListedDates, notes : {Undefined}, userId : Users]

CreateListed(data) ==
    LET r == createWorkout(workouts, nextId, data, now, FALSE)
    IN /\ nextId <= MaxListed
       /\ workouts' = r.workouts
       /\ nextId' = r.nextId
       /\ last' = [op |-> "createWorkout", data |-> data, value |-> r.row]
       /\ UNCHANGED <<seqs, exercises, sets, now>>

GetUserWorkouts(userId) ==
    /\ \E v \in getUserWorkouts(workouts, userId) :
          last' = [op |-> "getUserWorkouts", userId |-> userId, value |-> v]
    /\ UNCHANGED <<seqs, workouts, exercises, sets, nextId, now>>

GetUserWorkoutsByDate(userId, date) ==
    /\ \E v \in getUserWorkoutsByDate(workouts, userId, date) :
          last' = [op |-> "getUserWorkoutsByDate", userId |-> userId,
                   date |-> date, value |-> v]
    /\ UNCHANGED <<seqs, workouts, exercises, sets, nextId, now>>

ListCreate == \E data \in ListedData : CreateListed(data)
ListAll == \E userId \in Users : GetUserWorkouts(userId)
ListByDate == \E userId \in Users, date \in AskedDates :
                  GetUserWorkoutsByDate(userId, date)

NextLists == ListCreate \/ ListAll \/ ListByDate

SpecLists == Init /\ [][NextLists]_vars

\* The aggregate read, over the rows of the three tables.  The rows of
\* exercises and sets come from outside the gateway; each owner has one
\* workout.
Orders == {1, 2}
SetNumbers == {1, 2}

AddWorkout == \E data \in CreateData :
                  /\ \A w \in workouts : w.userId # data.userId
                  /\ CreateListed(data)

AddExercise ==
    \E w \in workouts, order \in Orders :
        /\ Cardinality(exercises) < MaxExercises
        /\ exercises' = InsertExercise(exercises, workouts, seqs.exercises,
                                       w.id, order)
        /\ seqs' = [seqs EXCEPT !.exercises = @ + 1]
        /\ last' = [op |-> "insert"]
        /\ UNCHANGED <<workouts, sets, nextId, now>>

AddSet ==
    \E e \in exercises, setNumber \in SetNumbers :
        /\ Cardinality(sets) < MaxSets
        /\ sets' = InsertSet(sets, exercises, seqs.sets, e.id, setNumber)
        /\ seqs' = [seqs EXCEPT !.sets = @ + 1]
        /\ last' = [op |-> "insert"]
        /\ UNCHANGED <<workouts, exercises, nextId, now>>

InAggregate(pc) == last.op = "getUserWorkoutWithExercises" /\ last.pc = pc

\* the caller of the aggregate read; the workouts of the other user are the
\* ones that are not the caller's
Caller == "user_1"

AggregateWorkout ==
    \E workoutId \in 1 .. Cardinality(Users), fault \in BOOLEAN :
        /\ last' = AwaitWorkout(AggregateCall(workoutId, Caller),
                                workouts, fault)
        /\ UNCHANGED <<seqs, workouts, exercises, sets, nextId, now>>

AggregateExercises ==
    /\ InAggregate("exercises")
    /\ LET found == {e \in exercises : e.workoutId = last.workoutId}
       IN \E es \in OrderedBy(found, ExerciseOrder(found)), fault \in BOOLEAN :
              last' = AwaitExercises(last, es, fault)
    /\ UNCHANGED <<seqs, workouts, exercises, sets, nextId, now>>

AggregateSets ==
    /\ InAggregate("sets")
    /\ \E i \in DOMAIN last.exercises \ DOMAIN last.results :
          LET found == {st \in sets : st.exerciseId = last.exercises[i].id}
          IN \E ss \in OrderedBy(found, SetNumber(found)), fault \in BOOLEAN :
                 last' = AwaitSets(last, i, ss, fault)
    /\ UNCHANGED <<seqs, workouts, exercises, sets, nextId, now>>

NextAggregate ==
    AddWorkout \/ AddExercise \/ AddSet
        \/ AggregateWorkout \/ AggregateExercises \/ AggregateSets

SpecAggregate == Init /\ [][NextAggregate]_vars

\* Statements that reach the store from outside the gateway: creations of
\* workouts, insertions of exercises and sets (with any foreign key), and
\* the deletion of a workout.  They leave the call in progress alone.
StoreCreate ==
    \E data \in CreateData :
        LET r == createWorkout(workouts, nextId, data, now, FALSE)
        IN /\ nextId <= MaxWorkouts
           /\ workouts' = r.workouts
           /\ nextId' = r.nextId
           /\ UNCHANGED <<exercises, sets, seqs, now, last>>

StoreInsertExercise(maxExercises) ==
    \E workoutId \in WorkoutIds, order \in Orders :
        /\ seqs.exercises <= maxExercises
        /\ exercises' = InsertExercise(exercises, workouts, seqs.exercises,
                                       workoutId, order)
        /\ seqs' = [seqs EXCEPT !.exercises = @ + 1]
        /\ UNCHANGED <<workouts, sets, nextId, now, last>>

StoreInsertSet(maxExercises, maxSets) ==
    \E exerciseId \in 1 .. maxExercises, setNumber \in SetNumbers :
        /\ seqs.sets <= maxSets
        /\ sets' = InsertSet(sets, exercises, seqs.sets, exerciseId, setNumber)
        /\ seqs' = [seqs EXCEPT !.sets = @ + 1]
        /\ UNCHANGED <<workouts, exercises, nextId, now, last>>

StoreDelete ==
    \E w \in workouts :
        LET r == DeleteWorkout(workouts, exercises, sets, w.id)
        IN /\ workouts' = r.workouts
           /\ exercises' = r.exercises
           /\ sets' = r.sets
           /\ UNCHANGED <<nextId, seqs, now, last>>

\* The store under these statements alone.
NextCascade ==
    StoreCreate \/ StoreInsertExercise(MaxExercises)
        \/ StoreInsertSet(MaxExercises, MaxSets) \/ StoreDelete

SpecCascade == Init /\ [][NextCascade]_vars

\* The aggregate read await by await, with these statements between its
\* awaits.
NextRace ==
    StoreCreate \/ StoreInsertExercise(MaxRaceExercises)
        \/ StoreInsertSet(MaxRaceExercises, MaxRaceSets) \/ StoreDelete
        \/ AggregateWorkout \/ AggregateExercises \/ AggregateSets

SpecRace == Init /\ [][NextRace]_vars

\* A sequence of calls of the entry points by one client, whose session
\* changes between the calls: it is signed in as one user, as another, or
\* signed out.
\* The identity an earlier call of the client was authorised with, when that
\* call succeeded.
PreviousIdentity ==
    IF last.op \in {"createWorkoutAction", "updateWorkoutAction"}
          /\ ~last.threw /\ last.value.success
        THEN last.auth
        ELSE NoUser

\* auth() that keeps the identity of the last call that succeeded
authInherited(session, previous) ==
    IF previous # NoUser THEN previous ELSE session

\* const { userId } = await auth(): the identity of the session of the
\* request being served, and nothing of an earlier request.
auth(session, previous) == session

InSession(op, input, session, previous, o) ==
    [session |-> session, previous |-> previous]
        @@ Observed(op, input, auth(session, previous), o)

SessionCreate ==
    \E input \in CreateInputs, session \in Identities, fault \in BOOLEAN :
        LET o == createWorkoutAction(workouts, nextId, input,
                     auth(session, PreviousIdentity), now, fault)
        IN /\ nextId <= MaxTimedWorkouts
           /\ workouts' = o.workouts
           /\ nextId' = o.nextId
           /\ last' = InSession("createWorkoutAction", input, session,
                                PreviousIdentity, o)
           /\ UNCHANGED <<exercises, sets, seqs, now>>

SessionUpdate ==
    \E input \in UpdateInputs, session \in Identities, fault \in BOOLEAN :
        LET o == updateWorkoutAction(workouts, nextId, input,
                     auth(session, PreviousIdentity), now, fault)
        IN /\ workouts' = o.workouts
           /\ nextId' = o.nextId
           /\ last' = InSession("updateWorkoutAction", input, session,
                                PreviousIdentity, o)
           /\ UNCHANGED <<exercises, sets, seqs, now>>

NextSession == SessionCreate \/ SessionUpdate

SpecSession == Init /\ [][NextSession]_vars

\* Every operation of the gateway, in any order.
NextGateway == GatewayCreate \/ GatewayUpdate \/ ListAll \/ ListByDate \/ Read

SpecGateway == Init /\ [][NextGateway]_vars

\* WorkoutForm of src/src/app/dashboard/workout/new/workout-form.tsx.  The
\* browser holds back a submit with an empty name or date (required), the
\* date input gives a calendar date, and an empty textarea gives "".
FormInputs ==
    {CreateInput(n, d, no, NoExtra) :
        n \in {NameA, NameB, NameLong}, d \in {DateStr1, DateStr2},
        no \in {Str("", 0), NotesN, NotesLong}}

\* The state of the form: isPending of useTransition, the error state, and
\* the paths given to router.push.
FormState(input, authId, isPending, error, pushed) ==
    [op |-> "WorkoutForm", input |-> input, auth |-> authId,
     isPending |-> isPending, error |-> error, pushed |-> pushed]

\* lines 17-23: handleSubmit clears the error and starts the transition
HandleSubmit ==
    \E input \in FormInputs, authId \in Identities :
        /\ nextId <= MaxTimedWorkouts
        /\ last.op = "WorkoutForm" => ~last.isPending
        /\ last' = FormState(input, authId, TRUE, Null, <<>>)
        /\ UNCHANGED <<workouts, exercises, sets, nextId, seqs, now>>

\* lines 24-37: what the function of the transition leaves when the call of
\* createWorkoutAction has settled with o: a rejection ends the function at
\* the await, with neither router.push nor setError.
Transition(form, o) ==
    IF o.threw
        THEN [form EXCEPT !.isPending = FALSE]
    ELSE IF o.value.success
        THEN [form EXCEPT !.isPending = FALSE,
                          !.pushed = Append(@, "/dashboard")]
    ELSE [form EXCEPT !.isPending = FALSE,
                      !.error = IF o.value.error # ""
                                    THEN [text |-> o.value.error]
                                    ELSE [text |-> "Failed to create workout"]]

ActionSettles ==
    \E fault \in BOOLEAN :
        LET o == createWorkoutAction(workouts, nextId, last.input, last.auth,
                                     now, fault)
        IN /\ last.op = "WorkoutForm"
           /\ last.isPending
           /\ workouts' = o.workouts
           /\ nextId' = o.nextId
           /\ last' = Transition(last, o)
           /\ UNCHANGED <<exercises, sets, seqs, now>>

NextForm == HandleSubmit \/ ActionSettles

SpecForm == Init /\ [][NextForm]_vars

\* Two calls of updateWorkout in progress at once.  A call builds its
\* statement, with updatedAt from new Date(), when it is made, and the store
\* carries the statement out later, as one step, on the rows it holds then.
\* the rows as they were when the call was made
RowsReadStale(seen, stored) == seen

\* The rows the update statement matches and sets: those the store holds
\* when it carries the statement out.
RowsRead(seen, stored) == stored

CallUpdate ==
    \E workoutId \in WorkoutIds, userId \in Users, data \in PartialData :
        LET call == [workoutId |-> workoutId, userId |-> userId,
                     data |-> data, at |-> now, seen |-> workouts,
                     settled |-> FALSE, row |-> Undefined]
        IN /\ \/ /\ last = NoCall
                 /\ last' = [op |-> "updateWorkout", before |-> workouts,
                             calls |-> <<call>>]
              \/ /\ last # NoCall
                 /\ Len(last.calls) < 2
                 /\ last' = [last EXCEPT !.calls = Append(@, call)]
           /\ UNCHANGED <<workouts, exercises, sets, nextId, seqs, now>>

StatementRuns ==
    /\ last # NoCall
    /\ \E k \in DOMAIN last.calls :
        LET call == last.calls[k]
            r == updateWorkout(RowsRead(call.seen, workouts), call.workoutId,
                               call.userId, call.data, call.at, FALSE)
        IN /\ ~call.settled
           /\ workouts' = IF r.row = Undefined
                              THEN workouts
                              ELSE {w \in workouts : w.id # r.row.id}
                                       \cup {r.row}
           /\ last' = [last EXCEPT !.calls[k].settled = TRUE,
                                   !.calls[k].row = r.row,
                                   !.calls[k].seen = {}]
           /\ UNCHANGED <<exercises, sets, nextId, seqs, now>>

CreateBefore ==
    /\ last = NoCall
    /\ StoreCreate

NextConcurrent == CreateBefore \/ CallUpdate \/ StatementRuns \/ Tick

SpecConcurrent == Init /\ [][NextConcurrent]_vars

\* The entry points and the reads, at one reading of the clock: the clock is
\* copied into createdAt and updatedAt and decides nothing in them.
Next == Create \/ Update \/ Read

Spec == Init /\ [][Next]_vars

----------------------------------------------------------------------------
(* What the properties range over *)

Times == 0 .. MaxClock

EntryOps == {"createWorkoutAction", "updateWorkoutAction"}

\* The data updateWorkout can be given: any subset of name, date and notes.
UpdateData ==
    [name : {Undefined, NameA, NameB},
     date : {Undefined, NewDate(DateStr1), NewDate(DateStr2)},
     notes : {Undefined, NotesN}]

Exists(id) == \E w \in workouts : w.id = id
OwnedByOther(id, userId) == \E w \in workouts : w.id = id /\ w.userId # userId

\* What the caller of an entry point can tell of its outcome.
Visible(o, before) ==
    [threw |-> o.threw, value |-> o.value, revalidated |-> o.revalidated,
     changed |-> o.workouts # before]

----------------------------------------------------------------------------
(* C1. Read isolation: for every workout w and every owner A other than   *)
(* w's, getUserWorkout(w.id, A) and getUserWorkoutWithExercises(w.id, A)   *)
(* return null; a read never returns a row of another owner.               *)
ReadIsolation ==
    /\ \A w \in workouts : \A A \in Users \ {w.userId} :
          /\ getUserWorkout(workouts, w.id, A) = Null
          /\ getUserWorkoutWithExercises(workouts, exercises, sets, w.id, A)
                = {Null}
    /\ last.op = "getUserWorkout" /\ last.value # Null
          => last.value.userId = last.userId
    /\ last.op = "getUserWorkoutWithExercises" /\ last.value # Null
          => last.value.workout.userId = last.userId

ReadIsolationWitness ==
    /\ last.op = "getUserWorkout"
    /\ OwnedByOther(last.workoutId, last.userId)
    /\ last.value = Null

(* C2. Write isolation: for every workout w, every owner A other than      *)
(* w's and any data, updateWorkout(w.id, A, data) returns no row and       *)
(* leaves the table, updatedAt of w included, as it was.                   *)
WriteIsolation ==
    \A w \in workouts : \A A \in Users \ {w.userId} :
        \A data \in UpdateData, t \in Times :
            LET r == updateWorkout(workouts, w.id, A, data, t, FALSE)
            IN /\ ~r.threw
               /\ r.row = Undefined
               /\ r.workouts = workouts

WriteIsolationWitness ==
    /\ last.op = "updateWorkoutAction"
    /\ ~last.threw
    /\ last.calls # <<>>
    /\ OwnedByOther(last.calls[1].workoutId, last.calls[1].userId)
    /\ last.value = Failure("Workout not found")

(* C3. Existence is not leaked: to a caller A, getUserWorkout,             *)
(* updateWorkout and updateWorkoutAction on an id that no row has end as   *)
(* they do on an id of a row of another owner (same value, same error      *)
(* "Workout not found", no change of the store, no path revalidated); and  *)
(* they end the same whether or not the other owner's row exists.          *)
(* The ids are those the schema of the entry point admits.                 *)
WithId(input, id) == [input EXCEPT !.id = id]

\* the payloads of the update entry point, whatever id they name
UpdatePayloads == {WithId(input, 0) : input \in UpdateInputs}

ExistenceNotLeaked ==
    \A A \in Users :
        /\ \A i, j \in CallIds :
              ~Exists(i) /\ OwnedByOther(j, A) =>
                /\ getUserWorkout(workouts, i, A) = getUserWorkout(workouts, j, A)
                /\ \A data \in UpdateData, fault \in BOOLEAN :
                      updateWorkout(workouts, i, A, data, now, fault)
                          = updateWorkout(workouts, j, A, data, now, fault)
                /\ \A input \in UpdatePayloads, fault \in BOOLEAN :
                      LET oi == updateWorkoutAction(workouts, nextId,
                                    WithId(input, i), A, now, fault)
                          oj == updateWorkoutAction(workouts, nextId,
                                    WithId(input, j), A, now, fault)
                      IN /\ Visible(oi, workouts) = Visible(oj, workouts)
                         /\ oj.workouts = workouts
                         /\ oj.revalidated = {}
                         /\ ~oj.threw /\ ~fault /\ NewDate(input.date) # InvalidDate
                               => oj.value = Failure("Workout not found")
        /\ \A w \in workouts :
              w.userId # A =>
                /\ getUserWorkout(workouts \ {w}, w.id, A)
                      = getUserWorkout(workouts, w.id, A)
                /\ \A input \in UpdatePayloads :
                      Visible(updateWorkoutAction(workouts \ {w}, nextId,
                                  WithId(input, w.id), A, now, FALSE),
                              workouts \ {w})
                        = Visible(updateWorkoutAction(workouts, nextId,
                                  WithId(input, w.id), A, now, FALSE),
                              workouts)

ExistenceNotLeakedWitness ==
    /\ last.op = "updateWorkoutAction"
    /\ last.auth \in Users
    /\ last.value = Failure("Workout not found")
    /\ OwnedByOther(last.input.id, last.auth)
    /\ \E i \in CallIds : ~Exists(i)
    /\ \E w \in workouts : w.userId = last.auth

(* C4. The owner comes from auth() only: a row inserted by                 *)
(* createWorkoutAction has the userId auth() returned in that call, and    *)
(* updateWorkoutAction reaches only rows of that userId, whatever the      *)
(* payload holds (a userId key included).                                  *)
OwnerFromAuth ==
    /\ \A input \in CreateInputs, a \in Identities, fault \in BOOLEAN :
          LET o == createWorkoutAction(workouts, nextId, input, a, now, fault)
          IN /\ \A row \in o.workouts \ workouts : row.userId = a /\ a \in Users
             /\ \A k \in DOMAIN o.calls : o.calls[k].userId = a
             /\ workouts \subseteq o.workouts
    /\ \A input \in UpdateInputs, a \in Identities, fault \in BOOLEAN :
          LET o == updateWorkoutAction(workouts, nextId, input, a, now, fault)
          IN /\ \A row \in o.workouts \ workouts : row.userId = a
             /\ \A row \in workouts \ o.workouts : row.userId = a
             /\ \A k \in DOMAIN o.calls : o.calls[k].userId = a
    /\ last.op \in EntryOps /\ ~last.threw /\ last.value.success
          => last.value.data.userId = last.auth

OwnerFromAuthWitness ==
    /\ last.op = "createWorkoutAction"
    /\ "userId" \in DOMAIN last.input.extra
    /\ last.input.extra.userId # last.auth
    /\ ~last.threw
    /\ last.value.success
    /\ last.value.data \in workouts

(* C5. createWorkoutAction and updateWorkoutAction return, for every       *)
(* input and every behaviour of the store, a success with the workout or a *)
(* failure with an error string, and never raise a fault to the caller.    *)
UniformResult ==
    last.op \in EntryOps =>
        /\ ~last.threw
        /\ \/ last.value.success /\ last.value.data \in workouts
           \/ ~last.value.success /\ last.value.error \in
                 {"Unauthorized", "Workout not found",
                  "Failed to create workout", "Failed to update workout"}

(* C6. Fail fast: when the input of an entry point fails its schema, or    *)
(* auth() yields no identity, the entry point calls neither createWorkout  *)
(* nor updateWorkout and the stored workouts are as before.                *)
FailFast ==
    /\ \A input \in CreateInputs, a \in Identities, fault \in BOOLEAN :
          createWorkoutSchema(input).issues # {} \/ a = NoUser =>
              LET o == createWorkoutAction(workouts, nextId, input, a, now, fault)
              IN o.calls = <<>> /\ o.workouts = workouts /\ o.nextId = nextId
    /\ \A input \in UpdateInputs, a \in Identities, fault \in BOOLEAN :
          updateWorkoutSchema(input).issues # {} \/ a = NoUser =>
              LET o == updateWorkoutAction(workouts, nextId, input, a, now, fault)
              IN o.calls = <<>> /\ o.workouts = workouts /\ o.nextId = nextId
    /\ last.op \in EntryOps /\ (last.threw \/ last.auth = NoUser)
          => last.calls = <<>>

FailFastWitness ==
    /\ last.op = "createWorkoutAction"
    /\ last.threw
    /\ last.value.name = "ZodError"
    /\ last.auth \in Users
    /\ last.calls = <<>>
    /\ workouts # {}

(* C7. With an input that passes the schema and no identity from auth(),   *)
(* both entry points return the failure "Unauthorized", write nothing and  *)
(* revalidate no path.                                                     *)
UnauthorizedResult ==
    /\ \A input \in CreateInputs, fault \in BOOLEAN :
          createWorkoutSchema(input).issues = {} =>
              createWorkoutAction(workouts, nextId, input, NoUser, now, fault)
                = Outcome(FALSE, Failure("Unauthorized"), workouts, nextId,
                          {}, <<>>)
    /\ \A input \in UpdateInputs, fault \in BOOLEAN :
          updateWorkoutSchema(input).issues = {} =>
              updateWorkoutAction(workouts, nextId, input, NoUser, now, fault)
                = Outcome(FALSE, Failure("Unauthorized"), workouts, nextId,
                          {}, <<>>)
    /\ last.op \in EntryOps /\ ~last.threw /\ last.auth = NoUser
          => last.value = Failure("Unauthorized") /\ last.revalidated = {}

UnauthorizedResultWitness ==
    /\ last.op = "updateWorkoutAction"
    /\ last.auth = NoUser
    /\ ~last.threw
    /\ last.value = Failure("Unauthorized")
    /\ Exists(last.input.id)

(* C8. Partial update: for a workout w of the caller, updateWorkout(w.id,  *)
(* owner, data) with data a subset of name, date and notes sets the fields *)
(* data supplies and updatedAt (to the clock), and leaves every other      *)
(* field of w, and every other row, as it was.                             *)
Supplied(old, new) == IF new = Undefined THEN old ELSE new

IsPartialUpdate(before, data, t, after) ==
    /\ after.id = before.id
    /\ after.userId = before.userId
    /\ after.createdAt = before.createdAt
    /\ after.name = Supplied(before.name, data.name)
    /\ after.date = Supplied(before.date, data.date)
    /\ after.notes = Supplied(before.notes, data.notes)
    /\ after.updatedAt = t

PartialUpdate ==
    /\ \A w \in workouts : \A data \in UpdateData :
          LET r == updateWorkout(workouts, w.id, w.userId, data, now, FALSE)
          IN /\ ~r.threw
             /\ r.row # Undefined
             /\ IsPartialUpdate(w, data, now, r.row)
             /\ r.workouts = (workouts \ {w}) \cup {r.row}
    /\ last.op = "updateWorkout" /\ last.before # Null
          => /\ last.value # Undefined
             /\ IsPartialUpdate(last.before, last.data, last.at, last.value)
             /\ last.value \in workouts

PartialUpdateWitness ==
    /\ last.op = "updateWorkout"
    /\ last.before # Null
    /\ last.data.name = NameB
    /\ last.data.notes = Undefined
    /\ last.before.name = NameA
    /\ last.before.notes = NotesN
    /\ last.value.name = NameB
    /\ last.value.notes = NotesN
    /\ last.value.updatedAt > last.before.updatedAt

(* C9. The update entry point accepts a positive integer id with any       *)
(* subset of name, date and notes: leaving name or date out is no          *)
(* validation failure.                                                     *)
OptionalOk(v, lo, hi) == v = Undefined \/ (IsString(v) /\ v.len >= lo /\ v.len <= hi)

UpdateAcceptsAnySubset ==
    /\ last.op = "updateWorkoutAction"
    /\ last.input.id \in Nat \ {0}
    /\ OptionalOk(last.input.name, 1, NameMax)
    /\ last.input.date = Undefined \/
          (IsString(last.input.date) /\ NewDate(last.input.date) # InvalidDate)
    /\ OptionalOk(last.input.notes, 0, NotesMax)
    => ~last.threw

(* C10. The create entry point rejects as a validation failure, before any *)
(* access to the store, every input whose date is no string that parses to *)
(* a calendar date: such an input never reaches createWorkout (stated for   *)
(* a caller who is signed in).                                             *)
Parseable(d) == IsString(d) /\ NewDate(d) # InvalidDate

CreateRejectsUnparseableDate ==
    last.op = "createWorkoutAction" /\ last.auth \in Users
        /\ ~Parseable(last.input.date)
        => last.threw /\ last.value.name = "ZodError" /\ last.calls = <<>>

(* C11. getUserWorkouts(o) returns exactly the workouts whose userId is o, *)
(* once each, by date ascending; for an owner with no workouts it returns  *)
(* the empty sequence.                                                     *)
Range(s) == {s[i] : i \in DOMAIN s}

\* s lists the rows once each, by date ascending
IsListing(s, rows) ==
    /\ DOMAIN s = 1 .. Cardinality(rows)
    /\ Range(s) = rows
    /\ \A i, j \in DOMAIN s : i < j => s[i].date.time <= s[j].date.time

ListByOwner ==
    /\ \A o \in Users :
          LET mine == {w \in workouts : w.userId = o}
              results == getUserWorkouts(workouts, o)
          IN /\ results # {}
             /\ \A s \in results : IsListing(s, mine)
             /\ mine = {} => results = {<<>>}
    /\ last.op = "getUserWorkouts"
          => IsListing(last.value, {w \in workouts : w.userId = last.userId})

ListByOwnerWitness ==
    /\ last.op = "getUserWorkouts"
    /\ Len(last.value) = 2
    /\ last.value[1].id > last.value[2].id
    /\ last.value[1].date.time < last.value[2].date.time
    /\ \E w \in workouts : w.userId # last.userId

(* C12. getUserWorkoutsByDate(o, d) returns exactly o's workouts dated on  *)
(* the calendar day of d, from 00:00:00.000 to 23:59:59.999 of that day,   *)
(* by date ascending, whatever the time of day of d: a workout of the last *)
(* second of day D is listed for D and not for D+1, one of midnight of D   *)
(* is listed for D and not for D-1.                                        *)
DayOf(d) == d.time \div MsPerDay

ListByDay ==
    /\ \A o \in Users, d \in AskedDates :
          LET onDay == {w \in workouts :
                           w.userId = o /\ DayOf(w.date) = DayOf(d)}
              results == getUserWorkoutsByDate(workouts, o, d)
          IN /\ results # {}
             /\ \A s \in results : IsListing(s, onDay)
    /\ \A w \in workouts, d \in AskedDates :
        \A s \in getUserWorkoutsByDate(workouts, w.userId, d) :
          /\ w.date \in {LastSecond(1), LastMs(1)}
                => (w \in Range(s) <=> DayOf(d) = 1)
          /\ w.date = Midnight(2)
                => (w \in Range(s) <=> DayOf(d) = 2)
    /\ last.op = "getUserWorkoutsByDate"
          => IsListing(last.value,
                 {w \in workouts : /\ w.userId = last.userId
                                   /\ DayOf(w.date) = DayOf(last.date)})

ListByDayWitness ==
    /\ last.op = "getUserWorkoutsByDate"
    /\ last.date = Noon(1)
    /\ Len(last.value) = 2
    /\ last.value[1].date = LastSecond(1)
    /\ last.value[2].date = LastMs(1)
    /\ \E w \in workouts : w.userId = last.userId /\ w.date = Midnight(2)

(* C13. Aggregate ordering: the aggregate getUserWorkoutWithExercises      *)
(* returns has the exercises of the workout, once each, by order           *)
(* ascending, and with each exercise exactly the sets whose exerciseId is  *)
(* its id, by setNumber ascending, whatever the order the rows were        *)
(* inserted in and the order the set fetches completed in.                 *)
Returned == InAggregate("done") /\ ~last.threw /\ last.value # Null

IsSorted(s, key) == \A i, j \in DOMAIN s : i < j => key[s[i]] <= key[s[j]]

Exercise(x) == [i \in DOMAIN x |-> x[i].exercise]

AggregateOrdering ==
    Returned =>
        LET xs == last.value.exercises
            mine == {e \in exercises : e.workoutId = last.workoutId}
        IN /\ DOMAIN xs = 1 .. Cardinality(mine)
           /\ Range(Exercise(xs)) = mine
           /\ IsSorted(Exercise(xs), ExerciseOrder(mine))
           /\ \A i \in DOMAIN xs :
                 LET its == {st \in sets : st.exerciseId = xs[i].exercise.id}
                 IN /\ DOMAIN xs[i].sets = 1 .. Cardinality(its)
                    /\ Range(xs[i].sets) = its
                    /\ IsSorted(xs[i].sets, SetNumber(its))

AggregateOrderingWitness ==
    /\ Returned
    /\ Len(last.value.exercises) = 2
    /\ last.value.exercises[1].exercise.id > last.value.exercises[2].exercise.id
    /\ last.settled = <<2, 1>>
    /\ \E i \in 1 .. 2 :
          /\ Len(last.value.exercises[i].sets) = 2
          /\ last.value.exercises[i].sets[1].id
                > last.value.exercises[i].sets[2].id

(* C14. getUserWorkoutWithExercises(id, A) returns null when no workout    *)
(* has the id or the workout is of another owner, and then it has queried  *)
(* the workouts only: a query on exercises or sets is issued only for a    *)
(* workout of A, after the workout query.                                  *)
ChildFetchGated ==
    last.op = "getUserWorkoutWithExercises" =>
        LET own == getUserWorkout(workouts, last.workoutId, last.userId)
        IN /\ last.queries # <<>> /\ last.queries[1] = "workouts"
           /\ (\E k \in DOMAIN last.queries :
                  last.queries[k] \in {"exercises", "sets"}) => own # Null
           /\ last.pc = "done" /\ ~last.threw
                 => /\ last.value = Null <=> own = Null
                    /\ last.value = Null => last.queries = <<"workouts">>

ChildFetchGatedWitness ==
    /\ InAggregate("done")
    /\ last.value = Null
    /\ OwnedByOther(last.workoutId, last.userId)
    /\ \E e \in exercises :
          /\ e.workoutId = last.workoutId
          /\ \E st \in sets : st.exerciseId = e.id

(* C15. Transitive ownership: every exercise in the aggregate returned to  *)
(* A is of the workout asked for, which is A's, and every set in it is of  *)
(* one of these exercises; no exercise or set of a workout of another      *)
(* owner is returned to A.                                                 *)
OwnerOfExercise(e) == (CHOOSE w \in workouts : w.id = e.workoutId).userId
OwnerOfSet(st) == OwnerOfExercise(CHOOSE e \in exercises : e.id = st.exerciseId)

TransitiveOwnership ==
    Returned =>
        /\ last.value.workout.id = last.workoutId
        /\ last.value.workout.userId = last.userId
        /\ \A i \in DOMAIN last.value.exercises :
              LET x == last.value.exercises[i]
              IN /\ x.exercise \in exercises
                 /\ x.exercise.workoutId = last.workoutId
                 /\ OwnerOfExercise(x.exercise) = last.userId
                 /\ \A k \in DOMAIN x.sets :
                       /\ x.sets[k] \in sets
                       /\ x.sets[k].exerciseId = x.exercise.id
                       /\ OwnerOfSet(x.sets[k]) = last.userId

TransitiveOwnershipWitness ==
    /\ Returned
    /\ \E i \in DOMAIN last.value.exercises :
          last.value.exercises[i].sets # <<>>
    /\ \E e \in exercises :
          /\ OwnerOfExercise(e) # last.userId
          /\ \E st \in sets : st.exerciseId = e.id

(* C16. Round trip: after createWorkout(data), and until an update,        *)
(* getUserWorkout(id of the result, data.userId) gives the row created:    *)
(* name, date and userId as supplied, notes as supplied (null when none    *)
(* were supplied), and createdAt equal to updatedAt.                       *)
RoundTripData ==
    [name : {NameA, NameB}, date : {NewDate(DateStr1), NewDate(DateStr2)},
     notes : {Undefined, NotesN}, userId : Users]

IsRoundTrip(data, got) ==
    /\ got # Null
    /\ got.name = data.name
    /\ got.date = data.date
    /\ got.notes = IF data.notes = Undefined THEN Null ELSE data.notes
    /\ got.userId = data.userId
    /\ got.createdAt = got.updatedAt

RoundTrip ==
    /\ \A data \in RoundTripData :
          LET r == createWorkout(workouts, nextId, data, now, FALSE)
          IN /\ ~r.threw
             /\ IsRoundTrip(data, getUserWorkout(r.workouts, r.row.id,
                                                 data.userId))
             /\ getUserWorkout(r.workouts, r.row.id, data.userId) = r.row
    /\ last.op = "createWorkout"
          => IsRoundTrip(last.data, getUserWorkout(workouts, last.value.id,
                                                   last.data.userId))

RoundTripWitness ==
    /\ last.op = "createWorkout"
    /\ now > last.value.createdAt
    /\ getUserWorkout(workouts, last.value.id, last.data.userId) = last.value

(* C17. After every updateWorkout that matched a row, the updatedAt of the *)
(* row is strictly greater than it was before the call.                    *)
UpdatedAtAdvances ==
    last.op = "updateWorkout" /\ last.value # Undefined
        => last.value.updatedAt > last.before.updatedAt

(* C18. id, userId and createdAt of a workout never change: whatever       *)
(* updateWorkout or updateWorkoutAction is called with, every workout is   *)
(* there afterwards with the id, the owner and the creation time it had.   *)
Identity(w) == [id |-> w.id, userId |-> w.userId, createdAt |-> w.createdAt]

\* every workout of before is in after with its identity, and after has no
\* workout that before has not
SameIdentities(before, after) ==
    {Identity(w) : w \in before} = {Identity(w) : w \in after}

\* a step adds workouts at most
KeepsIdentities ==
    \A w \in workouts : \E v \in workouts' : Identity(v) = Identity(w)

Immutable ==
    /\ [][KeepsIdentities]_vars
    /\ [](\A w \in workouts, input \in UpdatePayloads, A \in Users :
            SameIdentities(workouts,
                updateWorkoutAction(workouts, nextId, WithId(input, w.id), A,
                                    now, FALSE).workouts))
    /\ [](last.op = "updateWorkout" /\ last.value # Undefined
            => Identity(last.value) = Identity(last.before))

ImmutableWitness ==
    /\ last.op = "updateWorkout"
    /\ last.value # Undefined
    /\ last.value.updatedAt > last.value.createdAt
    /\ last.value.name # last.before.name
    /\ Identity(last.value) = Identity(last.before)

(* C19. The update entry point tells a failure of the store from a row not *)
(* found: it returns "Failed to update workout" exactly when updateWorkout *)
(* throws and "Workout not found" exactly when updateWorkout returns no    *)
(* row.                                                                    *)
FaultIsNotNotFound ==
    /\ \A input \in UpdateInputs, A \in Users, fault \in BOOLEAN :
          updateWorkoutSchema(input).issues = {} =>
              LET r == updateWorkout(workouts, input.id, A,
                           [name |-> input.name, date |-> NewDate(input.date),
                            notes |-> input.notes], now, fault)
                  o == updateWorkoutAction(workouts, nextId, input, A, now,
                                           fault)
              IN /\ ~o.threw
                 /\ fault => r.threw
                 /\ r.threw <=> o.value = Failure("Failed to update workout")
                 /\ ~r.threw /\ r.row = Undefined
                       <=> o.value = Failure("Workout not found")
    /\ last.op = "updateWorkoutAction" /\ ~last.threw
        /\ last.value = Failure("Workout not found")
          => getUserWorkout(workouts, last.calls[1].workoutId,
                            last.calls[1].userId) = Null

FaultIsNotNotFoundWitness ==
    /\ last.op = "updateWorkoutAction"
    /\ ~last.threw
    /\ last.value = Failure("Failed to update workout")
    /\ NewDate(last.input.date) # InvalidDate
    /\ getUserWorkout(workouts, last.input.id, last.auth) # Null

(* C20. No partial aggregate: when the exercises query or the sets query   *)
(* of one exercise fails, getUserWorkoutWithExercises throws and gives no  *)
(* value; it gives a value only when every sets query has answered, and    *)
(* then every exercise in it has its list of sets.                         *)
Pending == DOMAIN last.exercises \ DOMAIN last.results

NoPartialAggregate ==
    last.op = "getUserWorkoutWithExercises" =>
        /\ last.pc # "done" \/ last.threw => last.value = Undefined
        /\ Returned =>
              /\ Len(last.settled) = Len(last.value.exercises)
              /\ \A i \in DOMAIN last.value.exercises :
                    Range(last.value.exercises[i].sets)
                        = {st \in sets : st.exerciseId
                                = last.value.exercises[i].exercise.id}
        /\ last.pc = "exercises" =>
              LET c == AwaitExercises(last, <<>>, TRUE)
              IN c.pc = "done" /\ c.threw /\ c.value = Undefined
        /\ last.pc = "sets" =>
              \A i \in Pending :
                  LET c == AwaitSets(last, i, <<>>, TRUE)
                  IN c.pc = "done" /\ c.threw /\ c.value = Undefined

NoPartialAggregateWitness ==
    /\ InAggregate("done")
    /\ last.threw
    /\ last.value = Undefined
    /\ Len(last.queries) = 4
    /\ \E e \in exercises : e.workoutId = last.workoutId
          /\ \E st \in sets : st.exerciseId = e.id

(* C21. Query paths reject unauthenticated callers by redirect: with no    *)
(* identity from auth(), DashboardPage, NewWorkoutPage and EditWorkoutPage *)
(* each end in a redirect to /sign-in and call no gateway operation,       *)
(* whatever the parameters of the request and the stored workouts.         *)
PageOps == {"DashboardPage", "EditWorkoutPage", "NewWorkoutPage"}

UnauthenticatedRedirect ==
    /\ \A dateParam \in DateParams, fault \in BOOLEAN :
          DashboardPage(workouts, NoUser, dateParam, now, fault)
              = {Redirected("/sign-in", <<>>)}
    /\ \A workoutId \in IdParams, fault \in BOOLEAN :
          EditWorkoutPage(workouts, NoUser, workoutId, fault)
              = {Redirected("/sign-in", <<>>)}
    /\ NewWorkoutPage(NoUser) = {Redirected("/sign-in", <<>>)}
    /\ last.op \in PageOps /\ last.auth = NoUser
          => last.kind = "redirect" /\ last.to = "/sign-in"
                /\ last.calls = <<>>

UnauthenticatedRedirectWitness ==
    /\ last.op = "EditWorkoutPage"
    /\ last.auth = NoUser
    /\ ParseInt(last.param) # NaN
    /\ Exists(ParseInt(last.param).num)
    /\ last.kind = "redirect"
    /\ last.to = "/sign-in"

(* C22. On the query paths a parameter that does not parse into the        *)
(* expected shape (a workoutId segment that is not an integer, a date      *)
(* parameter that is not a calendar date) ends in a redirect to            *)
(* /dashboard and not in an error, and no gateway call is made with a NaN  *)
(* id or an Invalid Date.                                                  *)
IsIntegerText(s) ==
    LET body == IF s # <<>> /\ Head(s) \in {"-", "+"} THEN Tail(s) ELSE s
    IN body # <<>> /\ \A k \in DOMAIN body : body[k] \in DOMAIN Digit

IsCalendarDate(dateParam) == NewDate(dateParam) # InvalidDate

ParseFailureRedirects ==
    /\ last.op = "DashboardPage" /\ last.auth # NoUser
        /\ last.param # Undefined /\ last.param.len > 0
        /\ ~IsCalendarDate(last.param)
          => last.kind = "redirect" /\ last.to = "/dashboard"
                /\ last.calls = <<>>
    /\ last.op = "EditWorkoutPage" /\ last.auth # NoUser
        /\ ~IsIntegerText(last.param)
          => last.kind = "redirect" /\ last.to = "/dashboard"
                /\ last.calls = <<>>
    /\ last.op \in PageOps =>
          \A k \in DOMAIN last.calls :
              /\ last.calls[k].fn = "getUserWorkout"
                    => last.calls[k].workoutId # NaN
              /\ last.calls[k].fn = "getUserWorkoutsByDate"
                    => last.calls[k].date # InvalidDate

(* C23. Referential cascade: in every reachable state each exercise's      *)
(* workoutId names a stored workout and each set's exerciseId names a      *)
(* stored exercise; the step that deletes a workout removes all its        *)
(* exercises and all their sets, after it getUserWorkoutWithExercises      *)
(* gives null for that id to every caller, and no exercise or set of the   *)
(* workout is left in the tables.                                          *)
NoOrphans ==
    /\ \A e \in exercises : References(workouts, e.workoutId)
    /\ \A st \in sets : References(exercises, st.exerciseId)

CascadesInStep ==
    \A w \in workouts :
        ~References(workouts', w.id) =>
            /\ \A e \in exercises' : e.workoutId # w.id
            /\ \A e \in exercises :
                  e.workoutId = w.id =>
                      \A st \in sets' : st.exerciseId # e.id
            /\ \A A \in Users :
                  getUserWorkoutWithExercises(workouts', exercises', sets',
                                              w.id, A) = {Null}
            /\ \A v \in workouts \ {w} : v \in workouts'
            /\ \A e \in exercises : e.workoutId # w.id => e \in exercises'

ReferentialCascade == []NoOrphans /\ [][CascadesInStep]_vars

\* a workout has been deleted, and the children of another are still there
ReferentialCascadeWitness ==
    /\ Cardinality(workouts) < nextId - 1
    /\ exercises # {}
    /\ sets # {}
    /\ NoOrphans

(* C24. Identity is re-checked on every call: a call of an entry point is  *)
(* authorised by the identity auth() gives during that call and by nothing *)
(* of an earlier call.  After the session has lost its identity or has     *)
(* changed to another user, an update of a workout that is not the         *)
(* session's changes nothing, however the earlier calls ended, and, when   *)
(* the input passes the schema and the store answers, it returns           *)
(* "Unauthorized" or "Workout not found".                                  *)
Answered(call) ==
    /\ ~call.threw
    /\ call.value # Failure("Failed to update workout")

RecheckedStep ==
    last'.op \in EntryOps =>
        /\ last'.auth = last'.session
        /\ \A k \in DOMAIN last'.calls : last'.calls[k].userId = last'.session
        /\ last'.session = NoUser => workouts' = workouts
        /\ last'.op = "updateWorkoutAction"
            /\ getUserWorkout(workouts, last'.input.id, last'.session) = Null
              => /\ workouts' = workouts
                 /\ Answered(last')
                      => last'.value \in {Failure("Unauthorized"),
                                          Failure("Workout not found")}

IdentityRechecked == [][RecheckedStep]_vars

IdentityRecheckedWitness ==
    /\ last.op = "updateWorkoutAction"
    /\ last.previous = "user_1"
    /\ last.session # "user_1"
    /\ getUserWorkout(workouts, last.input.id, "user_1") # Null
    /\ last.value \in {Failure("Unauthorized"), Failure("Workout not found")}

(* C25. Workout lifecycle: over any sequence of the operations of the      *)
(* gateway the set of stored workout ids never shrinks; a row comes into   *)
(* being only in a call of createWorkout, one row for a successful call,   *)
(* with an id no row has or had; the list, get and update operations       *)
(* neither add nor remove a row.                                           *)
Ids(ws) == {w.id : w \in ws}

IdsAreFresh == \A w \in workouts : w.id < nextId

LifecycleStep ==
    /\ Ids(workouts) \subseteq Ids(workouts')
    /\ nextId' >= nextId
    /\ Ids(workouts') # Ids(workouts) => last'.op = "createWorkout"
    /\ last'.op = "createWorkout" =>
          /\ workouts' = workouts \cup {last'.value}
          /\ last'.value.id \notin Ids(workouts)
          /\ last'.value.id >= nextId
    /\ last'.op # "createWorkout" =>
          Cardinality(workouts') = Cardinality(workouts)

Succeeded(o) == ~o.threw /\ o.value.success

PathsOf(op, input) ==
    IF op = "createWorkoutAction"
        THEN {DashboardPath}
        ELSE {DashboardPath, WorkoutPath(input.id)}

InvalidatesOnSuccess ==
    /\ \A input \in CreateInputs, a \in Identities, fault \in BOOLEAN :
          LET o == createWorkoutAction(workouts, nextId, input, a, now, fault)
          IN /\ o.revalidated = IF Succeeded(o) THEN {DashboardPath} ELSE {}
             /\ Succeeded(o) => o.value.data \in o.workouts \ workouts
    /\ \A input \in UpdateInputs, a \in Identities, fault \in BOOLEAN :
          LET o == updateWorkoutAction(workouts, nextId, input, a, now, fault)
          IN /\ o.revalidated = IF Succeeded(o)
                                    THEN {DashboardPath, WorkoutPath(input.id)}
                                    ELSE {}
             /\ Succeeded(o) => o.value.data \in o.workouts
    /\ last.op \in EntryOps =>
          /\ last.revalidated = IF Succeeded(last)
                                    THEN PathsOf(last.op, last.input) ELSE {}
          /\ Succeeded(last) => last.value.data \in workouts
          /\ \A k \in DOMAIN last.effects :
                last.effects[k].fn = "revalidatePath" =>
                    \E j \in 1 .. k - 1 :
                        last.effects[j].fn \in {"createWorkout", "updateWorkout"}

InvalidatesOnSuccessWitness ==
    /\ last.op = "updateWorkoutAction"
    /\ Succeeded(last)
    /\ last.revalidated = {DashboardPath, WorkoutPath(last.input.id)}
    /\ Len(last.effects) = 3

(* C27. New-workout form: once the submit has settled the form has either  *)
(* navigated to /dashboard, exactly when the row was created, or shows a   *)
(* non-empty error message; no outcome of createWorkoutAction, a           *)
(* validation failure such as notes longer than 1000 characters included,  *)
(* leaves it with neither.                                                 *)
FormSettles ==
    last.op = "WorkoutForm" /\ ~last.isPending =>
        /\ last.pushed \in {<<>>, <<"/dashboard">>}
        /\ last.pushed = <<"/dashboard">> => last.error = Null
        /\ last.pushed = <<>> => last.error # Null /\ last.error.text # ""

(* C28. Create-to-dashboard consistency: a workout created by              *)
(* createWorkoutAction with the date string D is in what the dashboard     *)
(* shows for D and in the by-date result of no other calendar day; each    *)
(* workout of an owner is in the by-date result of exactly one calendar    *)
(* day, at whatever time of that day the query is made; and every by-date  *)
(* result is a subsequence of getUserWorkouts of the owner.                *)
RECURSIVE IsSubsequence(_, _)
IsSubsequence(s, l) ==
    IF s = <<>> THEN TRUE
    ELSE IF l = <<>> THEN FALSE
    ELSE IF Head(s) = Head(l) THEN IsSubsequence(Tail(s), Tail(l))
    ELSE IsSubsequence(s, Tail(l))

\* the calendar days asked for, and two times of each
Days == 0 .. 3
TimesOfDay(day) == {Midnight(day), Noon(day)}

ShownOn(w, day) ==
    \E date \in TimesOfDay(day) :
        \E s \in getUserWorkoutsByDate(workouts, w.userId, date) :
            w \in Range(s)

AlwaysShownOn(w, day) ==
    \A date \in TimesOfDay(day) :
        \A s \in getUserWorkoutsByDate(workouts, w.userId, date) :
            w \in Range(s)

CreatedIsOnDashboard ==
    last.op = "createWorkoutAction" /\ Succeeded(last) =>
        LET w == last.value.data
        IN /\ w.userId = last.auth
           /\ w.date = NewDate(last.input.date)
           /\ \A o \in DashboardPage(workouts, last.auth, last.input.date,
                                     now, FALSE) :
                 o.kind = "render" /\ w \in Range(o.props.workouts)
           /\ \A D \in {DateStr1, DateStr2} \ {last.input.date} :
                 \A o \in DashboardPage(workouts, last.auth, D, now, FALSE) :
                     o.kind = "render" /\ w \notin Range(o.props.workouts)

OnOneDay ==
    \A w \in workouts :
        \E day \in Days :
            /\ AlwaysShownOn(w, day)
            /\ \A other \in Days \ {day} : ~ShownOn(w, other)

\* the claim as stated: a subsequence of every listing of the owner
DashboardConsistency ==
    /\ CreatedIsOnDashboard
    /\ OnOneDay
    /\ \A A \in Users, day \in Days :
          \A date \in TimesOfDay(day) :
              \A s \in getUserWorkoutsByDate(workouts, A, date) :
                  \A l \in getUserWorkouts(workouts, A) : IsSubsequence(s, l)

\* the claim as amended: a subsequence of a listing of the owner
DashboardConsistencyUpToTies ==
    /\ CreatedIsOnDashboard
    /\ OnOneDay
    /\ \A A \in Users, day \in Days :
          \A date \in TimesOfDay(day) :
              \A s \in getUserWorkoutsByDate(workouts, A, date) :
                  /\ \E l \in getUserWorkouts(workouts, A) : IsSubsequence(s, l)
                  /\ IsSorted(s, WorkoutDate(Range(s)))

DashboardConsistencyWitness ==
    /\ last.op = "createWorkoutAction"
    /\ Succeeded(last)
    /\ \E w \in workouts :
          /\ w # last.value.data
          /\ w.userId = last.auth
          /\ w.date = last.value.data.date

(* C29. updateWorkout(id, owner, data) changes at most one row, the one    *)
(* with that id and owner: every other workout keeps all its fields, also  *)
(* when two calls by any callers are in progress at once on different ids; *)
(* two calls in progress at once on the same workout leave it as one of    *)
(* the two orders of the calls, one after the other, leaves it.            *)
InOrder(ws, a, b) ==
    updateWorkout(updateWorkout(ws, a.workoutId, a.userId, a.data, a.at,
                                FALSE).workouts,
                  b.workoutId, b.userId, b.data, b.at, FALSE).workouts

Targets(calls) ==
    {w \in last.before :
        \E k \in DOMAIN calls : /\ calls[k].settled
                                /\ w.id = calls[k].workoutId
                                /\ w.userId = calls[k].userId}

UpdatesOneRow ==
    last # NoCall =>
        /\ Ids(workouts) = Ids(last.before)
        /\ \A w \in last.before \ Targets(last.calls) : w \in workouts
        /\ \A k \in DOMAIN last.calls :
              last.calls[k].settled /\ last.calls[k].row # Undefined =>
                  /\ last.calls[k].row.id = last.calls[k].workoutId
                  /\ last.calls[k].row.userId = last.calls[k].userId
        /\ Len(last.calls) = 2 /\ last.calls[1].settled
              /\ last.calls[2].settled
              => workouts \in {InOrder(last.before, last.calls[1],
                                       last.calls[2]),
                               InOrder(last.before, last.calls[2],
                                       last.calls[1])}

\* two calls on one workout, the second made before the first was carried
\* out, each setting a column the other leaves alone
UpdatesOneRowWitness ==
    /\ last # NoCall
    /\ Len(last.calls) = 2
    /\ last.calls[1].settled /\ last.calls[2].settled
    /\ last.calls[1].workoutId = last.calls[2].workoutId
    /\ last.calls[1].row # Undefined /\ last.calls[2].row # Undefined
    /\ last.calls[1].data.name # Undefined
    /\ last.calls[2].data.date # Undefined
    /\ last.calls[2].at > last.calls[1].at
    /\ last.calls[2].row.name # last.calls[1].row.name
    /\ Cardinality(workouts) = 2

(* C30. Workout ids are unique and never reused, whatever the order of the *)
(* creations and deletions; hence getUserWorkoutWithExercises stays        *)
(* tenant-safe when the workout is deleted or other workouts are created   *)
(* between its ownership check and its fetches of exercises and sets: the  *)
(* result may lack children, but the workout in it is the caller's, every  *)
(* exercise in it is of that workout and every set of one of these         *)
(* exercises, and no stored workout of another owner has their ids.        *)
IdsUnique ==
    /\ \A w, v \in workouts : w.id = v.id => w = v
    /\ \A w \in workouts : w.id < nextId
    /\ \A e, f \in exercises : e.id = f.id => e = f
    /\ \A e \in exercises : e.id < seqs.exercises

IdsNotReused ==
    /\ \A w \in workouts' \ workouts : w.id >= nextId /\ w.id < nextId'
    /\ \A e \in exercises' \ exercises :
          e.id >= seqs.exercises /\ e.id < seqs'.exercises
    /\ nextId' >= nextId
    /\ seqs'.exercises >= seqs.exercises

TenantSafeResult ==
    Returned =>
        /\ last.value.workout.id = last.workoutId
        /\ last.value.workout.userId = last.userId
        /\ \A w \in workouts : w.id = last.workoutId => w.userId = last.userId
        /\ \A i \in DOMAIN last.value.exercises :
              LET x == last.value.exercises[i]
              IN /\ x.exercise.workoutId = last.workoutId
                 /\ \A e \in exercises :
                       e.id = x.exercise.id => e = x.exercise
                 /\ \A k \in DOMAIN x.sets :
                       x.sets[k].exerciseId = x.exercise.id

TenantSafeUnderRace ==
    [](IdsUnique /\ TenantSafeResult) /\ [][IdsNotReused]_vars

\* the workout was deleted after the ownership check, another owner has
\* created one since, and the result holds an exercise fetched before
TenantSafeUnderRaceWitness ==
    /\ Returned
    /\ ~References(workouts, last.workoutId)
    /\ \E w \in workouts : w.userId # last.userId /\ w.id > last.workoutId
    /\ last.value.exercises # <<>>

====
